---------------------------- MODULE Spec2Model ----------------------------
(***************************************************************************)
(* A model of invest-digest's card generator (backend/card_generator.py): *)
(* markdown section extraction (parse_summary), bullet extraction with a  *)
(* remote strategy and a local fallback (_gemini_points,                  *)
(* _fallback_points), character-granular wrapping (_wrap_text), card      *)
(* composition (_make_title_card, _make_section_card) and the sequence    *)
(* builder (generate_cards).                                              *)
(*                                                                         *)
(* Text is a sequence of characters.  A character is a string token: the  *)
(* ASCII characters stand for themselves, "\n" is the line break, and the *)
(* non-ASCII characters of the program are named: "bullet" is U+2022,     *)
(* "middot" is U+00B7, "ellipsis" is U+2026, and every other token (such  *)
(* as "zh", "he", "xin") is one CJK character.                            *)
(***************************************************************************)
EXTENDS Integers, Sequences, FiniteSets, TLC

VARIABLES
    wrap_pc,      \* _wrap_text as a function under test: "call" | "done"
    wrap_text,    \* its argument text
    wrap_size,    \* the size of its argument font
    wrap_width,   \* its argument max_width
    wrap_lines,   \* the list it returned
    parse_pc,     \* parse_summary as a function under test: "call" | "parsed" | "reparsed"
    parse_text,   \* the text of the file at md_path
    parse_out,    \* the dict it returned: [title, sections]
    reparse_out,  \* the dict returned for the serialization of parse_out
    api_key,      \* os.environ.get("GEMINI_API_KEY", "")
    gp_pc,        \* _gemini_points: "idle" | "call" | "request" | "return" | "raised"
    gp_title,     \* its argument section_title
    gp_content,   \* its argument content
    gp_requests,  \* the requests this call has sent to the remote service
    gp_outcome,   \* how the remote call ended: "none", "text" or the exception raised
    gp_raw,       \* the text of the remote response, when there is one
    gp_points,    \* the list it returned
    pc,           \* generate_cards: "idle" | "start" | "title_card" | "loop" | "points" | "done"
    plan,         \* what the document at md_path was written from (not read by the program)
    md_text,      \* the text of the file at md_path
    channel_name, \* the argument channel_name
    title,        \* data["title"]
    sections,     \* data["sections"], in insertion order
    ordered,      \* the (name, content) pairs of the recognized sections
    i,            \* the index of the section at hand, from 1
    points,       \* the points of the section at hand
    cards,        \* the list of paths to return
    files,        \* the artifacts persisted in output_dir, in the order they were saved
    proc,         \* runner.py: for every process its command line, position and locals
    db,           \* data/subscriptions.db: its tables and the rows of episodes
    disk          \* channels.json, deploy.sh and the files under data/

wrap_vars == <<wrap_pc, wrap_text, wrap_size, wrap_width, wrap_lines>>
parse_vars == <<parse_pc, parse_text, parse_out, reparse_out>>
gp_vars == <<api_key, gp_pc, gp_title, gp_content, gp_requests, gp_outcome, gp_raw, gp_points>>
rn_vars == <<proc, db, disk>>
gc_vars ==
    <<pc, plan, md_text, channel_name, title, sections, ordered, i, points, cards, files>>

-----------------------------------------------------------------------------
(* Characters and strings *)

NL == "\n"
SP == " "
BULLET == "bullet"
MIDDOT == "middot"
ELLIPSIS == "ellipsis"

\* str.strip() and the regular expressions' \s: the whitespace characters.
Whitespace == {" ", "\n", "\t"}

Digits == {"0", "1", "2", "3", "4", "5", "6", "7", "8", "9"}

RECURSIVE LStrip(_)
LStrip(s) ==
    IF s # <<>> /\ Head(s) \in Whitespace THEN LStrip(Tail(s)) ELSE s

RECURSIVE RStrip(_)
RStrip(s) ==
    IF s # <<>> /\ s[Len(s)] \in Whitespace
    THEN RStrip(SubSeq(s, 1, Len(s) - 1))
    ELSE s

\* str.strip()
Strip(s) == RStrip(LStrip(s))

\* The least and the greatest element of a non-empty set of integers.
Least(S) == CHOOSE x \in S : \A y \in S : x <= y
Greatest(S) == CHOOSE x \in S : \A y \in S : x >= y

\* The positions of character c in text at or after position p.
Positions(text, p, c) == {n \in p..Len(text) : text[n] = c}

\* str.split("\n"): the pieces between line breaks; k pieces for k-1 breaks.
RECURSIVE SplitFrom(_, _)
SplitFrom(s, k) ==
    IF Positions(s, k, NL) = {} THEN <<SubSeq(s, k, Len(s))>>
    ELSE LET b == Least(Positions(s, k, NL))
         IN  <<SubSeq(s, k, b - 1)>> \o SplitFrom(s, b + 1)

Split(s) == SplitFrom(s, 1)

\* s[:n]
Take(s, n) == SubSeq(s, 1, IF n < Len(s) THEN n ELSE Len(s))

\* s[n:] (0-based n)
Drop(s, n) == SubSeq(s, n + 1, Len(s))

RECURSIVE Flatten(_)
Flatten(ss) == IF ss = <<>> THEN <<>> ELSE Head(ss) \o Flatten(Tail(ss))

\* c * n
Rep(c, n) == [k \in 1..n |-> c]

-----------------------------------------------------------------------------
(* The font metrics oracle: ImageDraw.textlength with a CJK font.          *)

FS_TITLE == 68
FS_CONTENT == 40

\* Glyph advance of one character at a font size: a CJK character (and the
\* bullet and the ellipsis) takes the full em, an ASCII character half of it,
\* a space a quarter.
QuarterWidth == {" ", "\t"}
HalfWidth == {"-", "*", "#", "[", "]", "(", ")", ".", ":", "/", "a", "b", "c", "u"}
               \cup Digits

FontWidth(c, size) ==
    IF c \in QuarterWidth THEN size \div 4
    ELSE IF c \in HalfWidth THEN size \div 2
    ELSE size

\* The advances of the characters of s, added up by kind of glyph.
textlength(s, size) ==
    LET quarter == Cardinality({n \in 1..Len(s) : s[n] \in QuarterWidth})
        half == Cardinality({n \in 1..Len(s) : s[n] \in HalfWidth})
    IN  quarter * FontWidth(SP, size) + half * FontWidth("a", size)
            + (Len(s) - quarter - half) * FontWidth("zh", size)

-----------------------------------------------------------------------------
(* _wrap_text *)

WrapBulletGlyphs == {"-", "*", BULLET, MIDDOT}

\* re.sub(r"^[-*•·]\s*", "• ", raw_line.strip())
NormalizeBullet(raw_line) ==
    LET p == Strip(raw_line)
    IN  IF p # <<>> /\ Head(p) \in WrapBulletGlyphs
        THEN <<BULLET, SP>> \o LStrip(Tail(p))
        ELSE p

\* draw.textlength(test, font=font) <= max_width
FitsMeasuringCurrent(test, size, max_width) ==
    textlength(SubSeq(test, 1, Len(test) - 1), size) <= max_width

Fits(test, size, max_width) == textlength(test, size) <= max_width

\* The loop over the characters of one paragraph.  The line that starts with
\* the k-th character takes that character whether it fits or not
\* (current = char); LineEnd appends the next character for as long as the
\* test of current + char succeeds, and WrapChars flushes the line at the first
\* character for which it fails, or at the end of the paragraph.
\* A scan that starts a new line at every character (current = char in both
\* branches).
LineEndResettingAlways(paragraph, k, e, size, max_width) == e

RECURSIVE LineEnd(_, _, _, _, _)
LineEnd(paragraph, k, e, size, max_width) ==
    IF e + 1 <= Len(paragraph) /\ Fits(SubSeq(paragraph, k, e + 1), size, max_width)
    THEN LineEnd(paragraph, k, e + 1, size, max_width)
    ELSE e

\* A loop that starts the new line empty (current = "") and so loses the
\* character that did not fit.
RECURSIVE WrapCharsDroppingOverflow(_, _, _, _, _)
WrapCharsDroppingOverflow(paragraph, k, lines, size, max_width) ==
    IF k > Len(paragraph) THEN lines
    ELSE LET e == LineEnd(paragraph, k, k, size, max_width)
         IN  WrapCharsDroppingOverflow(paragraph, e + 2,
                                       Append(lines, SubSeq(paragraph, k, e)),
                                       size, max_width)

RECURSIVE WrapChars(_, _, _, _, _)
WrapChars(paragraph, k, lines, size, max_width) ==
    IF k > Len(paragraph) THEN lines
    ELSE LET e == LineEnd(paragraph, k, k, size, max_width)
         IN  WrapChars(paragraph, e + 1, Append(lines, SubSeq(paragraph, k, e)),
                       size, max_width)

\* The loop over text.split("\n").
RECURSIVE WrapRawLines(_, _, _, _)
WrapRawLines(raws, lines, size, max_width) ==
    IF raws = <<>> THEN lines
    ELSE LET paragraph == NormalizeBullet(Head(raws))
         IN  IF paragraph = <<>>
             THEN WrapRawLines(Tail(raws), lines, size, max_width)
             ELSE WrapRawLines(Tail(raws),
                               WrapChars(paragraph, 1, lines, size, max_width),
                               size, max_width)

_wrap_text(text, size, max_width) == WrapRawLines(Split(text), <<>>, size, max_width)

-----------------------------------------------------------------------------
(* parse_summary *)

\* Whether text has the characters of pat at position p (1-based).
StartsAt(text, p, pat) ==
    /\ p >= 1
    /\ p + Len(pat) - 1 <= Len(text)
    /\ SubSeq(text, p, p + Len(pat) - 1) = pat

\* ^ under re.MULTILINE: the start of the text or just after a line break.
LineStart(text, p) == p = 1 \/ (p > 1 /\ p <= Len(text) + 1 /\ text[p - 1] = NL)

\* The end (exclusive) of the run of whitespace that starts at position e.
RECURSIVE SpaceRunEnd(_, _)
SpaceRunEnd(text, e) ==
    IF e <= Len(text) /\ text[e] \in Whitespace THEN SpaceRunEnd(text, e + 1) ELSE e

\* The line breaks within the run of whitespace that starts at position e.
RunBreaks(text, e) == {m \in e..(SpaceRunEnd(text, e) - 1) : text[m] = NL}

FENCE == <<"-", "-", "-">>

\* re.sub(r"^---.*?---\s*\n", "", text, flags=re.DOTALL): ^ is the start of the
\* text only; .*? stops at the first closing --- after which \s*\n can match,
\* and the greedy \s* leaves \n the last line break of the whitespace run.
FrontmatterClose(text) ==
    {j \in 4..Len(text) : StartsAt(text, j, FENCE) /\ RunBreaks(text, j + 3) # {}}

StripFrontmatter(text) ==
    IF StartsAt(text, 1, FENCE) /\ FrontmatterClose(text) # {}
    THEN LET j == Least(FrontmatterClose(text))
         IN  SubSeq(text, Greatest(RunBreaks(text, j + 3)) + 1, Len(text))
    ELSE text

\* The fixed default title.
DEFAULT_TITLE == <<"tou", "zi", "zhai", "yao">>

\* re.search(r"^# (.+)$", text, re.MULTILINE): the first line that is "# "
\* followed by at least one character; group(1).strip(), or the default.
TitleLines(text) ==
    LET ls == Split(text)
    IN  {n \in 1..Len(ls) : Len(ls[n]) >= 3 /\ ls[n][1] = "#" /\ ls[n][2] = SP}

TitleOfWithoutDefault(text) ==
    IF TitleLines(text) # {}
    THEN Strip(Drop(Split(text)[Least(TitleLines(text))], 2))
    ELSE <<>>

TitleOf(text) ==
    IF TitleLines(text) # {}
    THEN Strip(Drop(Split(text)[Least(TitleLines(text))], 2))
    ELSE DEFAULT_TITLE

\* re.sub(r"\[([^\]]+)\]\([^)]+\)", r"\1", text): one left-to-right pass over
\* the non-overlapping matches.  A match at i is "[" label "](" url ")" with
\* the label running to the first "]" and the url to the first ")".
LinkAt(text, at) ==
    /\ at <= Len(text) /\ text[at] = "["
    /\ Positions(text, at + 1, "]") # {}
    /\ LET j == Least(Positions(text, at + 1, "]"))
       IN  /\ j > at + 1
           /\ j + 1 <= Len(text) /\ text[j + 1] = "("
           /\ Positions(text, j + 2, ")") # {}
           /\ Least(Positions(text, j + 2, ")")) > j + 2

LinkLabelEnd(text, at) == Least(Positions(text, at + 1, "]"))
LinkEnd(text, at) == Least(Positions(text, LinkLabelEnd(text, at) + 2, ")"))

RECURSIVE RemoveLinksFrom(_, _)
RemoveLinksFrom(text, at) ==
    LET links == {p \in at..Len(text) : LinkAt(text, p)}
    IN  IF links = {} THEN SubSeq(text, at, Len(text))
        ELSE LET p == Least(links)
             IN  SubSeq(text, at, p - 1)
                    \o SubSeq(text, p + 1, LinkLabelEnd(text, p) - 1)
                    \o RemoveLinksFrom(text, LinkEnd(text, p) + 1)

RemoveLinks(text) == RemoveLinksFrom(text, 1)

H2 == <<"#", "#", SP>>

\* sections[key] = val on a dict that keeps insertion order: an existing key
\* keeps its place and takes the new value.
DictSet(secs, key, val) ==
    IF \E n \in 1..Len(secs) : secs[n].name = key
    THEN [n \in 1..Len(secs) |->
            IF secs[n].name = key THEN [name |-> key, content |-> val]
            ELSE secs[n]]
    ELSE Append(secs, [name |-> key, content |-> val])

\* A match of r"^## ([^\n]+)\n" at p: a line start, "## ", a name of at least one
\* character, and the line break that ends the line.
HeadingAt(text, p) ==
    /\ LineStart(text, p)
    /\ StartsAt(text, p, H2)
    /\ p + 3 <= Len(text) /\ text[p + 3] # NL
    /\ Positions(text, p + 3, NL) # {}

\* (.*?)(?=^## |\Z): the content ends at the first line that starts with "## ",
\* or at the end of the text.
ContentEnd(text, c) ==
    Least({q \in c..(Len(text) + 1) :
            q = Len(text) + 1 \/ (LineStart(text, q) /\ StartsAt(text, q, H2))})

\* if val: sections[key] = val
KeepSectionEvenBlank(secs, key, val) == DictSet(secs, key, val)

KeepSection(secs, key, val) ==
    IF val # <<>> THEN DictSet(secs, key, val) ELSE secs

\* The loop over re.finditer(r"^## ([^\n]+)\n(.*?)(?=^## |\Z)", text, M | S),
\* searching from position pos.
RECURSIVE SectionsFrom(_, _, _)
SectionsFrom(text, pos, secs) ==
    LET starts == {p \in pos..Len(text) : HeadingAt(text, p)}
    IN  IF starts = {} THEN secs
        ELSE LET p == Least(starts)
                 e == Least(Positions(text, p + 3, NL))
                 q == ContentEnd(text, e + 1)
                 key == Strip(SubSeq(text, p + 3, e - 1))
                 val == Strip(SubSeq(text, e + 1, q - 1))
             IN  SectionsFrom(text, q, KeepSection(secs, key, val))

parse_summary(doc) ==
    LET text == StripFrontmatter(doc)
    IN  [title |-> TitleOf(text),
         sections |-> SectionsFrom(RemoveLinks(text), 1, <<>>)]

\* The input format written back from a Summary: the "# title" heading, then
\* for every section its "## name" heading and its content.
RECURSIVE SerializeSections(_)
SerializeSections(secs) ==
    IF secs = <<>> THEN <<>>
    ELSE <<NL>> \o H2 \o Head(secs).name \o <<NL>> \o Head(secs).content
            \o <<NL>> \o SerializeSections(Tail(secs))

Serialize(summary) ==
    <<"#", SP>> \o summary.title \o <<NL>> \o SerializeSections(summary.sections)

-----------------------------------------------------------------------------
(* _fallback_points and _gemini_points *)

SECTION_ORDER ==
    << <<"he", "xin", "guan", "dian">>,
       <<"ti", "ji", "biao", "di">>,
       <<"guan", "jian", "shu", "ju">>,
       <<"tou", "zi", "ji", "hui">>,
       <<"feng", "xian", "ti", "shi">>,
       <<"ge", "ren", "xing", "dong", "jian", "yi">> >>

PointBulletGlyphs == {"-", BULLET, MIDDOT}

\* The closers of a numeric prefix: . and the ideographic comma, the
\* ideographic full stop, ) and the fullwidth ).
NumberClosers == {".", "dunhao", "juhao", ")", "fwrparen"}

\* re.sub(r"\*+", "", raw)
NotStar(c) == c # "*"
RemoveStars(s) == SelectSeq(s, NotStar)

\* re.sub(r"^[-•·]\s*", "", s)
StripBullet(s) ==
    IF s # <<>> /\ Head(s) \in PointBulletGlyphs THEN LStrip(Tail(s)) ELSE s

\* The end (exclusive) of the run of digits that starts at position e.
RECURSIVE DigitRunEnd(_, _)
DigitRunEnd(s, e) ==
    IF e <= Len(s) /\ s[e] \in Digits THEN DigitRunEnd(s, e + 1) ELSE e

\* re.sub(r"^[\d]+[.、。\)）]\s*", "", s)
StripNumber(s) ==
    LET d == DigitRunEnd(s, 1)
    IN  IF d > 1 /\ d <= Len(s) /\ s[d] \in NumberClosers
        THEN LStrip(Drop(s, d))
        ELSE s

\* cleaned[:25] + "…" if len(cleaned) > 25 else cleaned
ShortenWithoutEllipsis(cleaned) == Take(cleaned, 25)

Shorten(cleaned) ==
    IF Len(cleaned) > 25 THEN Append(Take(cleaned, 25), ELLIPSIS) ELSE cleaned

RECURSIVE FallbackLoop(_, _)
FallbackLoop(raws, pts) ==
    IF raws = <<>> THEN pts
    ELSE LET cleaned == Strip(StripBullet(Strip(RemoveStars(Head(raws)))))
         IN  FallbackLoop(Tail(raws),
                          IF cleaned # <<>> THEN Append(pts, Shorten(cleaned))
                          ELSE pts)

_fallback_points(content) == Take(FallbackLoop(Split(content), <<>>), 5)

\* str.splitlines() of a stripped text: no line for the empty text.
SplitLines(s) == IF s = <<>> THEN <<>> ELSE Split(s)

\* The loop over raw.strip().splitlines().
RECURSIVE CleanLoop(_, _)
CleanLoop(ls, lines) ==
    IF ls = <<>> THEN lines
    ELSE LET l == Strip(StripBullet(StripNumber(Strip(Head(ls)))))
         IN  CleanLoop(Tail(ls), IF l # <<>> THEN Append(lines, l) ELSE lines)

CleanLines(raw) == CleanLoop(SplitLines(Strip(raw)), <<>>)

\* return lines[:5] if lines else _fallback_points(content)
RemotePointsUncapped(raw, content) ==
    IF CleanLines(raw) # <<>> THEN CleanLines(raw) ELSE _fallback_points(content)

RemotePoints(raw, content) ==
    IF CleanLines(raw) # <<>> THEN Take(CleanLines(raw), 5) ELSE _fallback_points(content)

\* if not api_key: the local strategy
UseRemoteProbingContent(key, content) == key # "" /\ Len(content) > 25

UseRemote(key, content) == key # ""

\* What the try block can raise: urlopen (URLError, HTTPError for a refused
\* credential or an exhausted quota, a timeout), json.loads, the indexing of
\* the response's structure, raw.strip() on a part that is no text.
RemoteErrors ==
    {"URLError", "HTTPError", "TimeoutError", "JSONDecodeError",
     "KeyError", "IndexError", "TypeError", "AttributeError"}

\* except Exception
HandlesTransportOnly(error) == error \in {"URLError", "HTTPError", "TimeoutError"}

Handles(error) == error \in RemoteErrors

\* Entry of _gemini_points up to urlopen: without a key the local strategy
\* answers; with one the request is sent.
GeminiEnter ==
    /\ gp_pc = "call"
    /\ IF UseRemote(api_key, gp_content)
       THEN /\ gp_requests' = Append(gp_requests,
                                     [section_title |-> gp_title, content |-> gp_content])
            /\ gp_pc' = "request"
            /\ UNCHANGED gp_points
       ELSE /\ gp_points' = _fallback_points(gp_content)
            /\ gp_pc' = "return"
            /\ UNCHANGED gp_requests
    /\ UNCHANGED <<api_key, gp_title, gp_content, gp_outcome, gp_raw>>

\* The remote call raises: the handler prints and returns the local
\* strategy's points.
GeminiFail ==
    /\ gp_pc = "request"
    /\ \E error \in RemoteErrors :
          /\ gp_outcome' = error
          /\ IF Handles(error)
             THEN gp_points' = _fallback_points(gp_content) /\ gp_pc' = "return"
             ELSE gp_pc' = "raised" /\ UNCHANGED gp_points
    /\ UNCHANGED <<api_key, gp_title, gp_content, gp_requests, gp_raw>>

\* The remote call answers with a text, one of `responses`.
GeminiReply(responses) ==
    /\ gp_pc = "request"
    /\ \E raw \in responses :
          /\ gp_outcome' = "text"
          /\ gp_raw' = raw
          /\ gp_points' = RemotePoints(raw, gp_content)
          /\ gp_pc' = "return"
    /\ UNCHANGED <<api_key, gp_title, gp_content, gp_requests>>

-----------------------------------------------------------------------------
(* The cards: _make_title_card and _make_section_card *)

W == 1080
H == 1920
PAD == 90

\* y = 230: where the first point is drawn.
CONTENT_TOP == 230
\* The footer separator is drawn at H - 130.
FOOTER_RESERVED == 130

\* The title card: the title wrapped at W - PAD * 2 in the title font, the
\* block centred on the canvas.
_make_title_card(card_title, channel, output_path) ==
    LET lines == _wrap_text(card_title, FS_TITLE, W - PAD * 2)
        line_h == FS_TITLE + 22
    IN  [path |-> output_path,
         kind |-> "title",
         channel |-> channel,
         y |-> H \div 2 - (Len(lines) * line_h) \div 2,
         lines |-> lines]

\* The lines one point is drawn as: wrapped[0] if wrapped else pt, with the
\* bullet, then wrapped[1:] as continuation lines.
PointLines(pt) ==
    LET content_w == W - PAD * 2 - 30
        wrapped == _wrap_text(pt, FS_CONTENT, content_w - 60)
    IN  IF wrapped = <<>> THEN << [text |-> pt, bullet |-> TRUE] >>
        ELSE [n \in 1..Len(wrapped) |-> [text |-> wrapped[n], bullet |-> n = 1]]

\* The loop over the points: every line of every point is drawn, line_h below
\* the one before, with 10 more between points.
RECURSIVE DrawPoints(_, _, _)
DrawPoints(pts, y, drawn) ==
    IF pts = <<>> THEN drawn
    ELSE LET line_h == FS_CONTENT + 20
             ls == PointLines(Head(pts))
         IN  DrawPoints(Tail(pts), y + Len(ls) * line_h + 10,
                        drawn \o [n \in 1..Len(ls) |->
                                    [y |-> y + (n - 1) * line_h,
                                     text |-> ls[n].text,
                                     bullet |-> ls[n].bullet]])

\* footer_text = video_title if len(video_title) <= 32 else video_title[:31] + "…"
FooterTextKeepingTail(video_title) ==
    IF Len(video_title) <= 32 THEN video_title
    ELSE Append(SubSeq(video_title, Len(video_title) - 30, Len(video_title)), ELLIPSIS)

FooterText(video_title) ==
    IF Len(video_title) <= 32 THEN video_title
    ELSE Append(Take(video_title, 31), ELLIPSIS)

_make_section_card(section_title, pts, index, total, video_title, output_path) ==
    [path |-> output_path,
     kind |-> "section",
     progress |-> [index |-> index, total |-> total],
     label |-> section_title,
     lines |-> DrawPoints(pts, CONTENT_TOP, <<>>),
     footer |-> FooterText(video_title)]

-----------------------------------------------------------------------------
(* generate_cards *)

DigitChar(d) == CHOOSE c \in Digits : c = ToString(d)

\* f"card_{n:02d}.png"
CardPath(n) ==
    IF n < 10 THEN <<"card_", "0", DigitChar(n), ".png">>
    ELSE <<"card_", DigitChar(n \div 10), DigitChar(n % 10), ".png">>

HasSection(secs, k) == \E n \in 1..Len(secs) : secs[n].name = k

SectionOf(secs, k) == secs[CHOOSE n \in 1..Len(secs) : secs[n].name = k]

\* ordered = [(k, sections[k]) for k in SECTION_ORDER if k in sections]
RECURSIVE OrderedFrom(_, _)
OrderedFrom(secs, n) ==
    IF n > Len(SECTION_ORDER) THEN <<>>
    ELSE (IF HasSection(secs, SECTION_ORDER[n])
          THEN <<SectionOf(secs, SECTION_ORDER[n])>> ELSE <<>>)
            \o OrderedFrom(secs, n + 1)

OrderedInSourceOrder(secs) == secs

Ordered(secs) == OrderedFrom(secs, 1)

\* output_dir.mkdir; data = parse_summary(md_path); cards = []
GcParse ==
    /\ pc = "start"
    /\ title' = parse_summary(md_text).title
    /\ sections' = parse_summary(md_text).sections
    /\ cards' = <<>>
    /\ pc' = "title_card"
    /\ UNCHANGED <<plan, md_text, channel_name, ordered, i, points, files>>

\* The title card is made, saved as card_00.png and appended; the recognized
\* sections are put in order.
GcTitleCard ==
    /\ pc = "title_card"
    /\ files' = Append(files, _make_title_card(title, channel_name, CardPath(0)))
    /\ cards' = Append(cards, CardPath(0))
    /\ ordered' = Ordered(sections)
    /\ i' = 1
    /\ pc' = "loop"
    /\ UNCHANGED <<plan, md_text, channel_name, title, sections, points>>

\* The loop takes the next section and calls _gemini_points for it.
GcCallPoints ==
    /\ pc = "loop"
    /\ i <= Len(ordered)
    /\ gp_pc' = "call"
    /\ gp_title' = ordered[i].name
    /\ gp_content' = ordered[i].content
    /\ gp_requests' = <<>>
    /\ gp_outcome' = "none"
    /\ gp_raw' = <<>>
    /\ gp_points' = <<>>
    /\ pc' = "points"
    /\ UNCHANGED <<api_key, plan, md_text, channel_name, title, sections, ordered,
                   i, points, cards, files>>

\* The card of the section at hand rendered while its extraction is still
\* under way.
GcSectionCardWithoutWaiting ==
    /\ pc = "points"
    /\ gp_pc \in {"request", "return"}
    /\ points' = gp_points
    /\ files' = Append(files,
                       _make_section_card(ordered[i].name, gp_points, i, Len(ordered),
                                          title, CardPath(i)))
    /\ cards' = Append(cards, CardPath(i))
    /\ i' = i + 1
    /\ gp_pc' = "idle"
    /\ gp_title' = <<>>
    /\ gp_content' = <<>>
    /\ gp_requests' = <<>>
    /\ gp_outcome' = "none"
    /\ gp_raw' = <<>>
    /\ gp_points' = <<>>
    /\ pc' = "loop"
    /\ UNCHANGED <<api_key, plan, md_text, channel_name, title, sections, ordered>>

\* _gemini_points has returned (its frame is gone): points holds its list,
\* the section's card is made with index i of len(ordered), saved as
\* card_{i:02d}.png and appended.
GcSectionCard ==
    /\ pc = "points"
    /\ gp_pc = "return"
    /\ points' = gp_points
    /\ files' = Append(files,
                       _make_section_card(ordered[i].name, gp_points, i, Len(ordered),
                                          title, CardPath(i)))
    /\ cards' = Append(cards, CardPath(i))
    /\ i' = i + 1
    /\ gp_pc' = "idle"
    /\ gp_title' = <<>>
    /\ gp_content' = <<>>
    /\ gp_requests' = <<>>
    /\ gp_outcome' = "none"
    /\ gp_raw' = <<>>
    /\ gp_points' = <<>>
    /\ pc' = "loop"
    /\ UNCHANGED <<api_key, plan, md_text, channel_name, title, sections, ordered>>

\* return cards
GcReturn ==
    /\ pc = "loop"
    /\ i > Len(ordered)
    /\ pc' = "done"
    /\ UNCHANGED <<gp_vars, plan, md_text, channel_name, title, sections, ordered,
                   i, points, cards, files>>

-----------------------------------------------------------------------------
(* runner.py: one process per invocation of main()                         *)

\* The invocations that can run side by side on the one data directory.
Procs == {"p1", "p2"}

None == "None"

\* A path at which there is no file.
NoFile == [exists |-> FALSE, channels |-> <<>>, frontmatter |-> <<>>, body |-> None]

\* if not ch.get(key) for key in ("channel_id", "name")
LacksKey(ch) == ch.channel_id = "" \/ ch.name = ""

\* ch.get("active", True)
IsActive(ch) == ch.active

\* _load_channels: exits without channels.json and on an entry without its
\* id or name; otherwise the active channels, in the file's order.
_load_channels(file) ==
    IF ~file.exists THEN [exits |-> TRUE, channels |-> <<>>]
    ELSE IF \E n \in 1..Len(file.channels) : LacksKey(file.channels[n])
    THEN [exits |-> TRUE, channels |-> <<>>]
    ELSE [exits |-> FALSE, channels |-> SelectSeq(file.channels, IsActive)]

\* _get_channel_name: the name of the first channel with that id, or the id.
_get_channel_name(channel_id, channels) ==
    LET hits == {n \in 1..Len(channels) : channels[n].channel_id = channel_id}
    IN  IF hits = {} THEN channel_id ELSE channels[Least(hits)].name

\* The scan of the frontmatter lines in cmd_cards: a channel_name line gives
\* the name and ends the scan; a channel_id line before it gives the name of
\* that channel in channels.json.
RECURSIVE FrontmatterChannel(_, _, _)
FrontmatterChannel(fm, channels, name) ==
    IF fm = <<>> THEN name
    ELSE IF Head(fm).key = "channel_name" THEN Head(fm).value
    ELSE IF Head(fm).key = "channel_id"
    THEN FrontmatterChannel(Tail(fm), channels,
                            _get_channel_name(Head(fm).value, channels))
    ELSE FrontmatterChannel(Tail(fm), channels, name)

\* The types of Python values that matter to a call: what pathlib.Path has
\* (mkdir, read_text, /) a str has not.
HasPathMethods(type) == type = "Path"

\* generate_cards(md_path, channel_name, output_dir) runs output_dir.mkdir and
\* md_path.read_text: it raises AttributeError for an argument without them.
GenerateCardsRaises(md_path_type, output_dir_type) ==
    IF ~HasPathMethods(output_dir_type) \/ ~HasPathMethods(md_path_type)
    THEN "AttributeError" ELSE "none"

\* cmd_build: sys.exit(result.returncode) ends the process with the return code
\* of build_site.py, whatever that is.
cmd_build(returncode) == [exits |-> TRUE, code |-> returncode]

\* The return codes of a subprocess.
ReturnCodes == {0, 1}

NoProc ==
    [pc |-> "off", argv |-> <<>>, exit |-> -1, error |-> "none", ran |-> <<>>,
     channel_name |-> "", listed |-> <<>>,
     targets |-> <<>>, ci |-> 0, rss |-> "untried", page |-> "untried",
     videos |-> <<>>, vi |-> 0, transcript |-> None, summary_body |-> None,
     new_count |-> 0, total_new |-> 0]

\* sys.exit(code); also the end of main(), with code 0.
Exits(p, code) == [proc[p] EXCEPT !.pc = "exited", !.exit = code]

\* An exception no frame handles: the traceback, and exit status 1.
Raises(p, error) == [proc[p] EXCEPT !.pc = "exited", !.exit = 1, !.error = error]

\* main(): the dispatch on sys.argv[1:].
Main(p) ==
    /\ proc[p].pc = "main"
    /\ LET args == proc[p].argv
       IN  proc' = [proc EXCEPT ![p] =
              IF args = <<>> THEN Exits(p, 0)
              ELSE IF args[1] = "run" THEN [proc[p] EXCEPT !.pc = "cmd_run"]
              ELSE IF args[1] = "build" THEN [proc[p] EXCEPT !.pc = "cmd_build"]
              ELSE IF args[1] = "cards"
              THEN (IF Len(args) < 2 THEN Exits(p, 1)
                    ELSE [proc[p] EXCEPT !.pc = "cmd_cards"])
              ELSE IF args[1] = "video"
              THEN (IF Len(args) < 2 THEN Exits(p, 1)
                    ELSE [proc[p] EXCEPT !.pc = "cmd_video"])
              ELSE IF args[1] = "deploy" THEN [proc[p] EXCEPT !.pc = "cmd_deploy"]
              ELSE Exits(p, 1)]
    /\ UNCHANGED <<db, disk>>

\* runner.py build: build_site.py is run and the process exits with its code.
CmdBuild(p) ==
    /\ proc[p].pc = "cmd_build"
    /\ \E returncode \in ReturnCodes :
          LET built == [cmd |-> "build_site.py", returncode |-> returncode]
          IN  proc' = [proc EXCEPT ![p] =
                 [Exits(p, cmd_build(returncode).code) EXCEPT
                     !.ran = Append(proc[p].ran, built)]]
    /\ UNCHANGED <<db, disk>>

\* runner.py deploy: cmd_build() first; what follows it runs if cmd_build
\* returns: the test for deploy.sh, then deploy.sh and the exit with its code.
CmdDeploy(p) ==
    /\ proc[p].pc = "cmd_deploy"
    /\ \E returncode \in ReturnCodes, pushed \in ReturnCodes :
          LET built == [cmd |-> "build_site.py", returncode |-> returncode]
              deployed == [cmd |-> "deploy.sh", returncode |-> pushed]
          IN  proc' = [proc EXCEPT ![p] =
                 IF cmd_build(returncode).exits
                 THEN [Exits(p, cmd_build(returncode).code) EXCEPT
                          !.ran = Append(proc[p].ran, built)]
                 ELSE IF ~disk.deploy_script
                 THEN [Exits(p, 1) EXCEPT !.ran = Append(proc[p].ran, built)]
                 ELSE [Exits(p, pushed) EXCEPT
                          !.ran = proc[p].ran \o <<built, deployed>>]]
    /\ UNCHANGED <<db, disk>>

\* runner.py cards <video_id>: the channels are loaded, the summary is looked
\* up and its frontmatter scanned for the channel name, the output directory is
\* made, and generate_cards is called with str(summary_path) and
\* str(output_dir).
CmdCards(p) ==
    /\ proc[p].pc = "cmd_cards"
    /\ LET video_id == proc[p].argv[2]
           loaded == _load_channels(disk.channels_file)
           summary == disk.summaries[video_id]
           cname == FrontmatterChannel(summary.frontmatter, loaded.channels, "")
           raised == GenerateCardsRaises("str", "str")
       IN  IF loaded.exits \/ ~summary.exists
           THEN /\ proc' = [proc EXCEPT ![p] = Exits(p, 1)]
                /\ UNCHANGED disk
           ELSE /\ disk' = [disk EXCEPT !.card_dirs = @ \cup {video_id}]
                /\ proc' = [proc EXCEPT ![p] =
                      IF raised # "none"
                      THEN [Raises(p, raised) EXCEPT !.channel_name = cname]
                      ELSE [proc[p] EXCEPT !.pc = "generate_cards",
                                           !.channel_name = cname]]
    /\ UNCHANGED db

\* runner.py video <video_id>: without the cards directory or a PNG in it the
\* process exits with 1; otherwise make_video writes the MP4 or raises.
CmdVideo(p) ==
    /\ proc[p].pc = "cmd_video"
    /\ LET video_id == proc[p].argv[2]
       IN  \E made \in {"none", "RuntimeError"} :
              proc' = [proc EXCEPT ![p] =
                 IF video_id \notin disk.card_dirs \/ video_id \notin disk.card_pngs
                 THEN Exits(p, 1)
                 ELSE IF made # "none" THEN Raises(p, made)
                 ELSE Exits(p, 0)]
    /\ UNCHANGED <<db, disk>>

\* _get_db: CREATE TABLE IF NOT EXISTS episodes.
_get_db(database) == [database EXCEPT !.tables = @ \cup {"episodes"}]

\* _is_processed: SELECT id FROM episodes WHERE video_id=?
_is_processed_by_channel(database, video_id) ==
    \E n \in 1..Len(database.episodes) : database.episodes[n].channel_id = video_id

_is_processed(database, video_id) ==
    \E n \in 1..Len(database.episodes) : database.episodes[n].video_id = video_id

\* INSERT OR REPLACE INTO episodes: a row of that video_id is deleted and the
\* new row takes its place, with the next id.
InsertOrReplace(database, row) ==
    LET kept == SelectSeq(database.episodes, LAMBDA r : r.video_id # row.video_id)
    IN  [database EXCEPT !.episodes =
            Append(kept, [row EXCEPT !.id = Len(database.episodes) + 1])]

\* INSERT OR IGNORE INTO episodes: video_id is UNIQUE, so with a row of that
\* video_id the statement changes nothing; otherwise the row is added with the
\* next id.
InsertOrIgnore(database, row) ==
    IF _is_processed(database, row.video_id) THEN database
    ELSE [database EXCEPT !.episodes =
             Append(@, [row EXCEPT !.id = Len(database.episodes) + 1])]

\* _mark_processed
_mark_processed(database, channel_id, video, transcript_path, summary_path) ==
    InsertOrIgnore(database,
        [id |-> 0, channel_id |-> channel_id, video_id |-> video.video_id,
         title |-> video.title, published_at |-> video.published_at,
         transcript_path |-> transcript_path, summary_path |-> summary_path,
         processed |-> 1])

\* The file names under data/.
TranscriptPath(video_id) == [dir |-> "transcripts", name |-> video_id, ext |-> ".txt"]
SummaryPath(video_id) == [dir |-> "summaries", name |-> video_id, ext |-> ".md"]

\* The frontmatter cmd_run writes before the summary body.
RunnerFrontmatter(v, cid, cname) ==
    << [key |-> "title", value |-> v.title],
       [key |-> "video_id", value |-> v.video_id],
       [key |-> "channel_id", value |-> cid],
       [key |-> "channel_name", value |-> cname],
       [key |-> "published", value |-> v.published_at],
       [key |-> "processed", value |-> "today"] >>

\* cmd_run up to the loop over the channels.
RunStart(p) ==
    /\ proc[p].pc = "cmd_run"
    /\ LET args == proc[p].argv
           channel_id == IF Len(args) >= 3 /\ args[2] = "--channel" THEN args[3] ELSE None
           loaded == _load_channels(disk.channels_file)
           targets == SelectSeq(loaded.channels,
                                LAMBDA ch : channel_id = None \/ ch.channel_id = channel_id)
       IN  IF loaded.exits \/ targets = <<>>
           THEN proc' = [proc EXCEPT ![p] = Exits(p, 1)] /\ UNCHANGED db
           ELSE /\ db' = _get_db(db)
                /\ proc' = [proc EXCEPT ![p].pc = "channel", ![p].targets = targets,
                                        ![p].ci = 1, ![p].total_new = 0]
    /\ UNCHANGED disk

\* for ch in targets: the next channel; get_latest_videos is entered.
RunChannel(p) ==
    /\ proc[p].pc = "channel"
    /\ proc[p].ci <= Len(proc[p].targets)
    /\ proc' = [proc EXCEPT ![p].pc = "rss", ![p].rss = "untried",
                            ![p].page = "untried", ![p].videos = <<>>]
    /\ UNCHANGED <<db, disk>>

\* After the last channel: conn.close() and the end of main().
RunDone(p) ==
    /\ proc[p].pc = "channel"
    /\ proc[p].ci > Len(proc[p].targets)
    /\ proc' = [proc EXCEPT ![p] = Exits(p, 0)]
    /\ UNCHANGED <<db, disk>>

\* What _videos_from_rss can raise: urlopen, and the decoding of the feed.
RssErrors == {"URLError", "UnicodeDecodeError"}

\* What _videos_from_page can raise: urlopen, json.loads of ytInitialData, and
\* a .get on a part of it that is no dict.  KeyError and IndexError of the
\* walk are handled inside it.
PageErrors == {"URLError", "JSONDecodeError", "AttributeError"}

\* get_latest_videos: except Exception, around either attempt.
HandlesLookupErrorOnly(error) == error \in {"KeyError", "IndexError"}

HandlesFeedError(error) == error \in RssErrors \cup PageErrors

\* if videos: return videos
RssSettles(videos) == videos # <<>>

\* get_latest_videos, first attempt: _videos_from_rss answers with one of
\* `feeds` or raises.  A non-empty answer is returned; otherwise the page
\* scrape is next.
LvRss(p, feeds) ==
    /\ proc[p].pc = "rss"
    /\ \/ \E videos \in feeds :
             proc' = [proc EXCEPT ![p] =
                IF RssSettles(videos)
                THEN [proc[p] EXCEPT !.rss = "videos",
                                     !.videos = videos, !.vi = 1,
                                     !.new_count = 0, !.pc = "video"]
                ELSE [proc[p] EXCEPT !.rss = "empty", !.pc = "page"]]
       \/ \E error \in RssErrors :
             proc' = [proc EXCEPT ![p] =
                IF HandlesFeedError(error)
                THEN [proc[p] EXCEPT !.rss = error, !.pc = "page"]
                ELSE [Raises(p, error) EXCEPT !.rss = error]]
    /\ UNCHANGED <<db, disk>>

\* get_latest_videos, second attempt: _videos_from_page answers with one of
\* `feeds` or raises, and then the empty list is returned.
LvPage(p, feeds) ==
    /\ proc[p].pc = "page"
    /\ \/ \E videos \in feeds :
             proc' = [proc EXCEPT ![p].page = IF videos = <<>> THEN "empty" ELSE "videos",
                                  ![p].videos = videos, ![p].vi = 1,
                                  ![p].new_count = 0, ![p].pc = "video"]
       \/ \E error \in PageErrors :
             proc' = [proc EXCEPT ![p] =
                IF HandlesFeedError(error)
                THEN [proc[p] EXCEPT !.page = error, !.videos = <<>>, !.vi = 1,
                                     !.new_count = 0, !.pc = "video"]
                ELSE [Raises(p, error) EXCEPT !.page = error]]
    /\ UNCHANGED <<db, disk>>

\* The channel and the video at hand.
Channel(p) == proc[p].targets[proc[p].ci]
Video(p) == proc[p].videos[proc[p].vi]

\* for v in videos: a video that _is_processed is skipped, another is taken.
RunVideo(p) ==
    /\ proc[p].pc = "video"
    /\ proc[p].vi <= Len(proc[p].videos)
    /\ proc' = [proc EXCEPT ![p] =
          IF _is_processed(db, Video(p).video_id)
          THEN [proc[p] EXCEPT !.vi = @ + 1]
          ELSE [proc[p] EXCEPT !.pc = "transcribe"]]
    /\ UNCHANGED <<db, disk>>

\* get_youtube_transcript answers with a text or None; without a transcript
\* the video is left.
RunTranscribe(p) ==
    /\ proc[p].pc = "transcribe"
    /\ \E transcript \in {None, "words"} :
          proc' = [proc EXCEPT ![p] =
             IF transcript = None
             THEN [proc[p] EXCEPT !.vi = @ + 1, !.pc = "video"]
             ELSE [proc[p] EXCEPT !.transcript = transcript, !.pc = "save_transcript"]]
    /\ UNCHANGED <<db, disk>>

\* t_path.write_text(transcript)
RunSaveTranscript(p) ==
    /\ proc[p].pc = "save_transcript"
    /\ disk' = [disk EXCEPT !.transcripts[Video(p).video_id] = proc[p].transcript]
    /\ proc' = [proc EXCEPT ![p].pc = "summarize"]
    /\ UNCHANGED db

\* generate_summary answers with the AI's summary or with one of its notices.
RunSummarize(p) ==
    /\ proc[p].pc = "summarize"
    /\ \E body \in {"summary", "notice"} :
          proc' = [proc EXCEPT ![p].summary_body = body, ![p].pc = "save_summary"]
    /\ UNCHANGED <<db, disk>>

\* s_path.write_text(frontmatter + summary_body)
RunSaveSummary(p) ==
    /\ proc[p].pc = "save_summary"
    /\ disk' = [disk EXCEPT !.summaries[Video(p).video_id] =
                  [exists |-> TRUE, channels |-> <<>>,
                   frontmatter |-> RunnerFrontmatter(Video(p), Channel(p).channel_id,
                                                     Channel(p).name),
                   body |-> proc[p].summary_body]]
    /\ proc' = [proc EXCEPT ![p].pc = "mark"]
    /\ UNCHANGED db

\* _mark_processed(conn, cid, v, str(t_path), str(s_path)); new_count += 1.
\* The iteration ends, and with it the use of its transcript and summary.
RunMark(p) ==
    /\ proc[p].pc = "mark"
    /\ db' = _mark_processed(db, Channel(p).channel_id, Video(p),
                             TranscriptPath(Video(p).video_id),
                             SummaryPath(Video(p).video_id))
    /\ proc' = [proc EXCEPT ![p].new_count = @ + 1, ![p].vi = @ + 1,
                            ![p].transcript = None, ![p].summary_body = None,
                            ![p].pc = "video"]
    /\ UNCHANGED disk

\* After the last video of the channel: total_new += new_count.
RunChannelDone(p) ==
    /\ proc[p].pc = "video"
    /\ proc[p].vi > Len(proc[p].videos)
    /\ proc' = [proc EXCEPT ![p].total_new = @ + proc[p].new_count,
                            ![p].ci = @ + 1, ![p].pc = "channel"]
    /\ UNCHANGED <<db, disk>>

-----------------------------------------------------------------------------
(* worker.py's fetch_channel, on the same data directory and database *)

\* The summary worker.py's fetch_channel writes: no channel_name line.
WorkerFrontmatter(v, cid) ==
    << [key |-> "title", value |-> v.title],
       [key |-> "video_id", value |-> v.video_id],
       [key |-> "channel_id", value |-> cid],
       [key |-> "published", value |-> v.published_at],
       [key |-> "processed", value |-> "today"] >>

\* What one attempt at the list of videos gives: a list, or an exception.
Attempts(feeds, errors) ==
    {[error |-> "none", videos |-> videos] : videos \in feeds}
        \cup {[error |-> error, videos |-> <<>>] : error \in errors}

\* get_latest_videos as a function of what its two attempts give: the feed's
\* list when the feed gives a non-empty one, otherwise the page's list, and
\* the empty list when the page scrape raises.
get_latest_videos(rss, page) ==
    IF rss.error = "none" /\ RssSettles(rss.videos) THEN rss
    ELSE IF rss.error # "none" /\ ~HandlesFeedError(rss.error) THEN rss
    ELSE IF page.error = "none" THEN page
    ELSE IF HandlesFeedError(page.error) THEN [error |-> "none", videos |-> <<>>]
    ELSE page

\* fetch_channel(channel_id) up to its loop: get_db() connects and creates no
\* table; get_latest_videos(channel_id).
FetchLatest(p, feeds) ==
    /\ proc[p].pc = "fetch_channel"
    /\ \E rss \in Attempts(feeds, RssErrors), page \in Attempts(feeds, PageErrors) :
          LET latest == get_latest_videos(rss, page)
          IN  proc' = [proc EXCEPT ![p] =
                 IF latest.error # "none" THEN Raises(p, latest.error)
                 ELSE [proc[p] EXCEPT !.videos = latest.videos, !.vi = 1,
                                      !.new_count = 0, !.pc = "fetch_video"]]
    /\ UNCHANGED <<db, disk>>

\* for v in videos: SELECT id FROM episodes WHERE video_id=? raises
\* sqlite3.OperationalError without the table; a video with a row is skipped.
FetchVideo(p) ==
    /\ proc[p].pc = "fetch_video"
    /\ proc[p].vi <= Len(proc[p].videos)
    /\ proc' = [proc EXCEPT ![p] =
          IF "episodes" \notin db.tables THEN Raises(p, "OperationalError")
          ELSE IF _is_processed(db, Video(p).video_id)
          THEN [proc[p] EXCEPT !.vi = @ + 1]
          ELSE [proc[p] EXCEPT !.pc = "fetch_transcribe"]]
    /\ UNCHANGED <<db, disk>>

\* get_youtube_transcript answers with a text or None; without a transcript
\* the video is left.
FetchTranscribe(p) ==
    /\ proc[p].pc = "fetch_transcribe"
    /\ \E transcript \in {None, "words"} :
          proc' = [proc EXCEPT ![p] =
             IF transcript = None
             THEN [proc[p] EXCEPT !.vi = @ + 1, !.pc = "fetch_video"]
             ELSE [proc[p] EXCEPT !.transcript = transcript,
                                  !.pc = "fetch_save_transcript"]]
    /\ UNCHANGED <<db, disk>>

\* transcript_path.write_text(transcript)
FetchSaveTranscript(p) ==
    /\ proc[p].pc = "fetch_save_transcript"
    /\ disk' = [disk EXCEPT !.transcripts[Video(p).video_id] = proc[p].transcript]
    /\ proc' = [proc EXCEPT ![p].pc = "fetch_summarize"]
    /\ UNCHANGED db

\* generate_summary answers with the AI's summary or with one of its notices.
FetchSummarize(p) ==
    /\ proc[p].pc = "fetch_summarize"
    /\ \E body \in {"summary", "notice"} :
          proc' = [proc EXCEPT ![p].summary_body = body, ![p].pc = "fetch_save_summary"]
    /\ UNCHANGED <<db, disk>>

\* summary_path.write_text(header + summary_md)
FetchSaveSummary(p) ==
    /\ proc[p].pc = "fetch_save_summary"
    /\ disk' = [disk EXCEPT !.summaries[Video(p).video_id] =
                  [exists |-> TRUE, channels |-> <<>>,
                   frontmatter |-> WorkerFrontmatter(Video(p), proc[p].argv[2]),
                   body |-> proc[p].summary_body]]
    /\ proc' = [proc EXCEPT ![p].pc = "fetch_insert"]
    /\ UNCHANGED db

\* INSERT OR IGNORE INTO episodes ... ; conn.commit(); new_count += 1.  The
\* statement raises sqlite3.OperationalError without the table.
FetchInsert(p) ==
    /\ proc[p].pc = "fetch_insert"
    /\ IF "episodes" \notin db.tables
       THEN /\ proc' = [proc EXCEPT ![p] = Raises(p, "OperationalError")]
            /\ UNCHANGED db
       ELSE /\ db' = InsertOrIgnore(db,
                        [id |-> 0, channel_id |-> proc[p].argv[2],
                         video_id |-> Video(p).video_id, title |-> Video(p).title,
                         published_at |-> Video(p).published_at,
                         transcript_path |-> TranscriptPath(Video(p).video_id),
                         summary_path |-> SummaryPath(Video(p).video_id),
                         processed |-> 1])
            /\ proc' = [proc EXCEPT ![p].new_count = @ + 1, ![p].vi = @ + 1,
                                    ![p].transcript = None, ![p].summary_body = None,
                                    ![p].pc = "fetch_video"]
    /\ UNCHANGED disk

\* After the last video: UPDATE channels SET last_checked=CURRENT_TIMESTAMP
\* WHERE channel_id=?, which raises sqlite3.OperationalError without the
\* channels table; conn.commit(), conn.close() and the return.
FetchDone(p) ==
    /\ proc[p].pc = "fetch_video"
    /\ proc[p].vi > Len(proc[p].videos)
    /\ IF "channels" \notin db.tables
       THEN /\ proc' = [proc EXCEPT ![p] = Raises(p, "OperationalError")]
            /\ UNCHANGED db
       ELSE /\ db' = [db EXCEPT !.last_checked = @ \cup {proc[p].argv[2]}]
            /\ proc' = [proc EXCEPT ![p] = Exits(p, 0)]
    /\ UNCHANGED disk

\* SQLite lets one connection write at a time: an INSERT met by another
\* connection's INSERT waits for it, and raises sqlite3.OperationalError
\* (database is locked) when the wait outlasts the connection's timeout.
InsertSteps == {"mark", "fetch_insert"}

InsertLocked(p) ==
    /\ proc[p].pc \in InsertSteps
    /\ \E q \in Procs \ {p} : proc[q].pc \in InsertSteps
    /\ proc' = [proc EXCEPT ![p] = Raises(p, "OperationalError")]
    /\ UNCHANGED <<db, disk>>

-----------------------------------------------------------------------------
(* _wrap_text applied to every text of a bounded set *)

MaxWrapLen == 5
MaxWidthSteps == 10

WrapAlphabet == {NL, SP, "-", "a", "zh"}

RECURSIVE SeqsUpTo(_, _)
SeqsUpTo(S, n) ==
    IF n = 0 THEN {<<>>}
    ELSE LET shorter == SeqsUpTo(S, n - 1)
         IN  shorter \cup {Append(s, c) : s \in {t \in shorter : Len(t) = n - 1}, c \in S}

WrapInit ==
    /\ wrap_pc = "call"
    /\ wrap_text \in SeqsUpTo(WrapAlphabet, MaxWrapLen)
    /\ wrap_size \in {FS_TITLE, FS_CONTENT}
    /\ wrap_width \in {10 * k : k \in 0..MaxWidthSteps}
    /\ wrap_lines = <<>>

WrapText ==
    /\ wrap_pc = "call"
    /\ wrap_lines' = _wrap_text(wrap_text, wrap_size, wrap_width)
    /\ wrap_pc' = "done"
    /\ UNCHANGED <<wrap_text, wrap_size, wrap_width>>

WrapIdle ==
    /\ wrap_pc = "idle"
    /\ wrap_text = <<>>
    /\ wrap_size = FS_CONTENT
    /\ wrap_width = 0
    /\ wrap_lines = <<>>

-----------------------------------------------------------------------------
(* parse_summary applied to every document of a bounded set, and applied   *)
(* again to the serialization of what it returned                          *)

MaxParseLines == 4

\* The lines the documents are made of: a frontmatter fence, headings of both
\* levels with and without text (and a top-level heading that is a link),
\* content with and without link markup.
ParseLines ==
    { <<>>,
      FENCE,
      <<"#", SP, "zh">>,
      <<"#", SP, SP>>,
      <<"#", SP, "[", "a", "]", "(", "u", ")">>,
      <<"#", "#", SP, "he">>,
      <<"#", "#", SP, "xin">>,
      <<"#", "#", SP, SP>>,
      <<SP, "a">>,
      <<"[", "a", "]", "(", "u", ")">>,
      <<"[", "[", "a", "]", "(", "u", ")", "]", "(", "u", ")">> }

RECURSIVE Join(_)
Join(ls) ==
    IF ls = <<>> THEN <<>>
    ELSE IF Len(ls) = 1 THEN ls[1]
    ELSE Head(ls) \o <<NL>> \o Join(Tail(ls))

ParseDocs == {Join(ls) : ls \in SeqsUpTo(ParseLines, MaxParseLines)}

NoSummary == [title |-> <<>>, sections |-> <<>>]

ParseInit ==
    /\ parse_pc = "call"
    /\ parse_text \in ParseDocs
    /\ parse_out = NoSummary
    /\ reparse_out = NoSummary

ParseIdle ==
    /\ parse_pc = "idle"
    /\ parse_text = <<>>
    /\ parse_out = NoSummary
    /\ reparse_out = NoSummary

ParseSummary ==
    /\ parse_pc = "call"
    /\ parse_out' = parse_summary(parse_text)
    /\ parse_pc' = "parsed"
    /\ UNCHANGED <<parse_text, reparse_out>>

Reparse ==
    /\ parse_pc = "parsed"
    /\ reparse_out' = parse_summary(Serialize(parse_out))
    /\ parse_pc' = "reparsed"
    /\ UNCHANGED <<parse_text, parse_out>>

GeminiIdle ==
    /\ api_key = ""
    /\ gp_pc = "idle"
    /\ gp_title = <<>>
    /\ gp_content = <<>>
    /\ gp_requests = <<>>
    /\ gp_outcome = "none"
    /\ gp_raw = <<>>
    /\ gp_points = <<>>

-----------------------------------------------------------------------------
(* _gemini_points called once, with every content of a bounded set         *)

MaxMixedLines == 2
MaxRepeatedLines == 6

\* The texts of up to MaxMixedLines lines in every order, and those that
\* repeat one line up to MaxRepeatedLines times.
TextsOf(lines) ==
    {Join(ls) : ls \in SeqsUpTo(lines, MaxMixedLines)}
        \cup {Join([n \in 1..k |-> l]) : k \in 1..MaxRepeatedLines, l \in lines}

ContentLines ==
    { <<>>,
      <<"-", SP, "*", "*", "zh", "*", "*", "zh", SP>>,
      <<SP, "*", MIDDOT, SP, "-", "zh", "*">>,
      Rep("zh", 25),
      Rep("zh", 26) }

ResponseLines ==
    { <<SP>>,
      <<"1", ".", SP, "zh", "zh">>,
      <<BULLET, SP, "zh">>,
      <<"2", "dunhao">>,
      <<"-", SP, "1", ".", SP, "zh">>,
      Rep("zh", 30) }

PointsInit ==
    /\ api_key \in {"", "key"}
    /\ gp_pc = "call"
    /\ gp_title \in {SECTION_ORDER[n] : n \in 1..Len(SECTION_ORDER)}
    /\ gp_content \in TextsOf(ContentLines)
    /\ gp_requests = <<>>
    /\ gp_outcome = "none"
    /\ gp_raw = <<>>
    /\ gp_points = <<>>

PointsNext ==
    \/ GeminiEnter /\ UNCHANGED <<wrap_vars, parse_vars, gc_vars, rn_vars>>
    \/ GeminiFail /\ UNCHANGED <<wrap_vars, parse_vars, gc_vars, rn_vars>>
    \/ GeminiReply(TextsOf(ResponseLines)) /\ UNCHANGED <<wrap_vars, parse_vars, gc_vars, rn_vars>>

NoPlan == [frontmatter |-> FALSE, title |-> <<>>, blocks |-> <<>>]

GenerateIdle ==
    /\ pc = "idle"
    /\ plan = NoPlan
    /\ md_text = <<>>
    /\ channel_name = <<>>
    /\ title = <<>>
    /\ sections = <<>>
    /\ ordered = <<>>
    /\ i = 0
    /\ points = <<>>
    /\ cards = <<>>
    /\ files = <<>>

-----------------------------------------------------------------------------
(* generate_cards run on every document of a bounded set                   *)

MaxTitleLen == 33
MaxDocSections == 3

\* A heading the summaries carry that is no recognized section.
UNKNOWN_SECTION == <<"zhu", "zi", "gao", "yuan", "wen">>

DocNames == {SECTION_ORDER[1], SECTION_ORDER[5], UNKNOWN_SECTION}

\* A content that trims to nothing, and one of two lines with emphasis, a
\* bullet and a link.
BLANK_CONTENT == <<SP>>
DocContents ==
    { BLANK_CONTENT,
      <<"-", SP, "*", "*", "zh", "*", "*", "[", "a", "]", "(", "u", ")", NL, "zh", SP, "zh">> }

\* Titles of distinct characters, short and around the footer's 32.
TitleOfLen(n) == [k \in 1..n |-> "zh" \o ToString(k)]
DocTitles == {<<>>, TitleOfLen(2)} \cup {TitleOfLen(n) : n \in 32..MaxTitleLen}

DocBlocks ==
    {b \in SeqsUpTo([name : DocNames, content : DocContents], MaxDocSections) :
        \A m, n \in 1..Len(b) : m # n => b[m].name # b[n].name}

Plans == [frontmatter : BOOLEAN, title : DocTitles, blocks : DocBlocks]

FRONTMATTER == FENCE \o <<NL, "a", ":", SP, "zh", NL>> \o FENCE \o <<NL, NL>>

RECURSIVE BlocksText(_)
BlocksText(blocks) ==
    IF blocks = <<>> THEN <<>>
    ELSE H2 \o Head(blocks).name \o <<NL>> \o Head(blocks).content \o <<NL, NL>>
            \o BlocksText(Tail(blocks))

\* The document of a plan, as worker.py writes summaries: the frontmatter, the
\* "# title" heading (here with a trailing space), then the "## name" sections.
DocText(p) ==
    (IF p.frontmatter THEN FRONTMATTER ELSE <<>>)
        \o (IF p.title # <<>> THEN <<"#", SP>> \o p.title \o <<SP, NL, NL>> ELSE <<>>)
        \o BlocksText(p.blocks)

\* Documents with no heading at all.
MalformedDocs ==
    { <<>>, <<NL>>, <<"#">>, <<"#", "#">>, FENCE, FENCE \o <<NL, "a">>,
      H2 \o SECTION_ORDER[1], <<"#", "#", "#", SP, "a", NL, "a">> }

\* The remote service's answers: nothing, a numbered list, six lines, and
\* five lines of 101 characters each.
CardResponses ==
    { <<>>,
      <<"1", ".", SP, "zh", "zh", NL, "2", ".", SP, "zh">>,
      Join([n \in 1..6 |-> <<"zh", "a">>]),
      Join([n \in 1..5 |-> Rep("zh", 101)]) }

GenerateInit ==
    /\ pc = "start"
    /\ \/ plan \in Plans /\ md_text = DocText(plan)
       \/ plan = NoPlan /\ md_text \in MalformedDocs
    /\ channel_name = <<"zh", "a">>
    /\ api_key \in {"", "key"}
    /\ title = <<>>
    /\ sections = <<>>
    /\ ordered = <<>>
    /\ i = 0
    /\ points = <<>>
    /\ cards = <<>>
    /\ files = <<>>
    /\ gp_pc = "idle"
    /\ gp_title = <<>>
    /\ gp_content = <<>>
    /\ gp_requests = <<>>
    /\ gp_outcome = "none"
    /\ gp_raw = <<>>
    /\ gp_points = <<>>

-----------------------------------------------------------------------------
(* runner.py invoked once, with every command line of a bounded set, on    *)
(* every data directory of a bounded set                                   *)

MaxFeedLen == 2

VideoIds == {"v1", "v2"}

VideoOf(video_id) ==
    [video_id |-> video_id, title |-> "title of " \o video_id, published_at |-> "2024"]

\* The lists of videos a feed or a channel page can give.
FeedResults == SeqsUpTo({VideoOf(id) : id \in VideoIds}, MaxFeedLen)

CHANNEL_A == [channel_id |-> "UC_a", name |-> "A", active |-> TRUE]
CHANNEL_B == [channel_id |-> "UC_b", name |-> "B", active |-> TRUE]

ChannelsJson(channels) ==
    [exists |-> TRUE, channels |-> channels, frontmatter |-> <<>>, body |-> None]

\* channels.json: missing, with an entry without a name, with one channel, with
\* two, and with two of which one is not active.
ChannelsFiles ==
    { NoFile,
      ChannelsJson(<<[CHANNEL_A EXCEPT !.name = ""]>>),
      ChannelsJson(<<CHANNEL_A>>),
      ChannelsJson(<<CHANNEL_A, CHANNEL_B>>),
      ChannelsJson(<<CHANNEL_A, [CHANNEL_B EXCEPT !.active = FALSE]>>) }

CommandLines ==
    { <<>>, <<"run">>, <<"run", "--channel", "UC_a">>, <<"run", "--channel", "UC_x">>,
      <<"build">>, <<"deploy">>, <<"cards">>, <<"cards", "v1">>, <<"cards", "v2">>,
      <<"video">>, <<"video", "v1">>, <<"status">> }

NoEpisodes == [tables |-> {}, episodes |-> <<>>, last_checked |-> {}]

\* What earlier runs have left: nothing; v1 recorded by cmd_run, with its two
\* files; v1 recorded by fetch_channel, with its two files.
RecordedV1 ==
    _mark_processed(_get_db(NoEpisodes), CHANNEL_A.channel_id, VideoOf("v1"),
                    TranscriptPath("v1"), SummaryPath("v1"))

SummaryFile(frontmatter) ==
    [exists |-> TRUE, channels |-> <<>>, frontmatter |-> frontmatter, body |-> "summary"]

Stores ==
    { [db |-> NoEpisodes,
       transcripts |-> [id \in VideoIds |-> None],
       summaries |-> [id \in VideoIds |-> NoFile]],
      [db |-> RecordedV1,
       transcripts |-> [id \in VideoIds |-> IF id = "v1" THEN "words" ELSE None],
       summaries |-> [id \in VideoIds |->
          IF id = "v1"
          THEN SummaryFile(RunnerFrontmatter(VideoOf("v1"), CHANNEL_A.channel_id,
                                             CHANNEL_A.name))
          ELSE NoFile]],
      [db |-> RecordedV1,
       transcripts |-> [id \in VideoIds |-> IF id = "v1" THEN "words" ELSE None],
       summaries |-> [id \in VideoIds |->
          IF id = "v1"
          THEN SummaryFile(WorkerFrontmatter(VideoOf("v1"), CHANNEL_A.channel_id))
          ELSE NoFile]] }

RunnerInit ==
    /\ \E argv \in CommandLines :
          proc = [p \in Procs |->
                    IF p = "p1" THEN [NoProc EXCEPT !.pc = "main", !.argv = argv]
                    ELSE NoProc]
    /\ \E store \in Stores, channels_file \in ChannelsFiles, deploy_script \in BOOLEAN :
          /\ db = store.db
          /\ disk = [channels_file |-> channels_file,
                     deploy_script |-> deploy_script,
                     transcripts |-> store.transcripts,
                     summaries |-> store.summaries,
                     card_dirs |-> {},
                     card_pngs |-> {}]

RunnerIdle ==
    /\ proc = [p \in Procs |-> NoProc]
    /\ db = NoEpisodes
    /\ disk = [channels_file |-> NoFile,
               deploy_script |-> FALSE,
               transcripts |-> [id \in VideoIds |-> None],
               summaries |-> [id \in VideoIds |-> NoFile],
               card_dirs |-> {},
               card_pngs |-> {}]

-----------------------------------------------------------------------------
(* Two invocations side by side, cmd_run or fetch_channel each, on one     *)
(* data directory and one database                                         *)

MaxSharedFeedLen == 1

\* The videos of the channel, newest first.
Uploads == <<VideoOf("v2"), VideoOf("v1")>>

\* The lists of videos a feed or a channel page can give to either of them:
\* videos of the channel, each once, newest first.
NewestFirst(videos) ==
    \A m, n \in 1..Len(videos) :
        m < n => \E j, k \in 1..Len(Uploads) :
                    j < k /\ Uploads[j] = videos[m] /\ Uploads[k] = videos[n]

SharedFeeds ==
    {videos \in SeqsUpTo({VideoOf(id) : id \in VideoIds}, MaxSharedFeedLen) :
        NewestFirst(videos)}

\* runner.py run, and worker.py fetch <channel_id>, which calls fetch_channel.
Launches ==
    { [NoProc EXCEPT !.pc = "main", !.argv = <<"run">>],
      [NoProc EXCEPT !.pc = "fetch_channel", !.argv = <<"fetch", "UC_a">>] }

\* The tables the database can have before either starts: episodes as an
\* earlier cmd_run created it, channels as the worker expects it.
SharedTables == SUBSET {"episodes", "channels"}

SharedInit ==
    \* The two are interchangeable: one order of each pair of launches.
    /\ proc \in [Procs -> Launches]
    /\ ~(proc["p1"].pc = "fetch_channel" /\ proc["p2"].pc = "main")
    /\ \E store \in Stores, tables \in SharedTables :
          /\ db = [store.db EXCEPT !.tables = @ \cup tables]
          /\ disk = [channels_file |-> ChannelsJson(<<CHANNEL_A>>),
                     deploy_script |-> FALSE,
                     transcripts |-> store.transcripts,
                     summaries |-> store.summaries,
                     card_dirs |-> {},
                     card_pngs |-> {}]

Next ==
    \/ GcParse /\ UNCHANGED <<wrap_vars, parse_vars, gp_vars, rn_vars>>
    \/ GcTitleCard /\ UNCHANGED <<wrap_vars, parse_vars, gp_vars, rn_vars>>
    \/ GcCallPoints /\ UNCHANGED <<wrap_vars, parse_vars, rn_vars>>
    \/ GeminiEnter /\ UNCHANGED <<wrap_vars, parse_vars, gc_vars, rn_vars>>
    \/ GeminiFail /\ UNCHANGED <<wrap_vars, parse_vars, gc_vars, rn_vars>>
    \/ GeminiReply(CardResponses) /\ UNCHANGED <<wrap_vars, parse_vars, gc_vars, rn_vars>>
    \/ GcSectionCard /\ UNCHANGED <<wrap_vars, parse_vars, rn_vars>>
    \/ GcReturn /\ UNCHANGED <<wrap_vars, parse_vars, rn_vars>>

vars == <<wrap_vars, parse_vars, gp_vars, gc_vars, rn_vars>>

Init == GenerateInit /\ WrapIdle /\ ParseIdle /\ RunnerIdle

Spec == Init /\ [][Next]_vars

InitWrap == WrapInit /\ ParseIdle /\ GeminiIdle /\ GenerateIdle /\ RunnerIdle

WrapNext == WrapText /\ UNCHANGED <<parse_vars, gp_vars, gc_vars, rn_vars>>

SpecWrap == InitWrap /\ [][WrapNext]_vars

InitPoints == PointsInit /\ WrapIdle /\ ParseIdle /\ GenerateIdle /\ RunnerIdle

SpecPoints == InitPoints /\ [][PointsNext]_vars

ParseNext ==
    \/ ParseSummary /\ UNCHANGED <<wrap_vars, gp_vars, gc_vars, rn_vars>>
    \/ Reparse /\ UNCHANGED <<wrap_vars, gp_vars, gc_vars, rn_vars>>

InitParse == ParseInit /\ WrapIdle /\ GeminiIdle /\ GenerateIdle /\ RunnerIdle

SpecParse == InitParse /\ [][ParseNext]_vars

RunnerNext ==
    \/ \E p \in Procs : Main(p) /\ UNCHANGED <<wrap_vars, parse_vars, gp_vars, gc_vars>>
    \/ \E p \in Procs : CmdBuild(p) /\ UNCHANGED <<wrap_vars, parse_vars, gp_vars, gc_vars>>
    \/ \E p \in Procs : CmdDeploy(p) /\ UNCHANGED <<wrap_vars, parse_vars, gp_vars, gc_vars>>
    \/ \E p \in Procs : CmdCards(p) /\ UNCHANGED <<wrap_vars, parse_vars, gp_vars, gc_vars>>
    \/ \E p \in Procs : CmdVideo(p) /\ UNCHANGED <<wrap_vars, parse_vars, gp_vars, gc_vars>>
    \/ \E p \in Procs : RunStart(p) /\ UNCHANGED <<wrap_vars, parse_vars, gp_vars, gc_vars>>
    \/ \E p \in Procs : RunChannel(p) /\ UNCHANGED <<wrap_vars, parse_vars, gp_vars, gc_vars>>
    \/ \E p \in Procs :
          LvRss(p, FeedResults) /\ UNCHANGED <<wrap_vars, parse_vars, gp_vars, gc_vars>>
    \/ \E p \in Procs :
          LvPage(p, FeedResults) /\ UNCHANGED <<wrap_vars, parse_vars, gp_vars, gc_vars>>
    \/ \E p \in Procs : RunVideo(p) /\ UNCHANGED <<wrap_vars, parse_vars, gp_vars, gc_vars>>
    \/ \E p \in Procs :
          RunTranscribe(p) /\ UNCHANGED <<wrap_vars, parse_vars, gp_vars, gc_vars>>
    \/ \E p \in Procs :
          RunSaveTranscript(p) /\ UNCHANGED <<wrap_vars, parse_vars, gp_vars, gc_vars>>
    \/ \E p \in Procs :
          RunSummarize(p) /\ UNCHANGED <<wrap_vars, parse_vars, gp_vars, gc_vars>>
    \/ \E p \in Procs :
          RunSaveSummary(p) /\ UNCHANGED <<wrap_vars, parse_vars, gp_vars, gc_vars>>
    \/ \E p \in Procs : RunMark(p) /\ UNCHANGED <<wrap_vars, parse_vars, gp_vars, gc_vars>>
    \/ \E p \in Procs :
          RunChannelDone(p) /\ UNCHANGED <<wrap_vars, parse_vars, gp_vars, gc_vars>>
    \/ \E p \in Procs : RunDone(p) /\ UNCHANGED <<wrap_vars, parse_vars, gp_vars, gc_vars>>

InitRunner == RunnerInit /\ WrapIdle /\ ParseIdle /\ GeminiIdle /\ GenerateIdle

SpecRunner == InitRunner /\ [][RunnerNext]_vars

SharedNext ==
    \/ \E p \in Procs : Main(p) /\ UNCHANGED <<wrap_vars, parse_vars, gp_vars, gc_vars>>
    \/ \E p \in Procs : RunStart(p) /\ UNCHANGED <<wrap_vars, parse_vars, gp_vars, gc_vars>>
    \/ \E p \in Procs : RunChannel(p) /\ UNCHANGED <<wrap_vars, parse_vars, gp_vars, gc_vars>>
    \/ \E p \in Procs :
          LvRss(p, SharedFeeds) /\ UNCHANGED <<wrap_vars, parse_vars, gp_vars, gc_vars>>
    \/ \E p \in Procs :
          LvPage(p, SharedFeeds) /\ UNCHANGED <<wrap_vars, parse_vars, gp_vars, gc_vars>>
    \/ \E p \in Procs : RunVideo(p) /\ UNCHANGED <<wrap_vars, parse_vars, gp_vars, gc_vars>>
    \/ \E p \in Procs :
          RunTranscribe(p) /\ UNCHANGED <<wrap_vars, parse_vars, gp_vars, gc_vars>>
    \/ \E p \in Procs :
          RunSaveTranscript(p) /\ UNCHANGED <<wrap_vars, parse_vars, gp_vars, gc_vars>>
    \/ \E p \in Procs :
          RunSummarize(p) /\ UNCHANGED <<wrap_vars, parse_vars, gp_vars, gc_vars>>
    \/ \E p \in Procs :
          RunSaveSummary(p) /\ UNCHANGED <<wrap_vars, parse_vars, gp_vars, gc_vars>>
    \/ \E p \in Procs : RunMark(p) /\ UNCHANGED <<wrap_vars, parse_vars, gp_vars, gc_vars>>
    \/ \E p \in Procs :
          RunChannelDone(p) /\ UNCHANGED <<wrap_vars, parse_vars, gp_vars, gc_vars>>
    \/ \E p \in Procs : RunDone(p) /\ UNCHANGED <<wrap_vars, parse_vars, gp_vars, gc_vars>>
    \/ \E p \in Procs :
          FetchLatest(p, SharedFeeds) /\ UNCHANGED <<wrap_vars, parse_vars, gp_vars, gc_vars>>
    \/ \E p \in Procs : FetchVideo(p) /\ UNCHANGED <<wrap_vars, parse_vars, gp_vars, gc_vars>>
    \/ \E p \in Procs :
          FetchTranscribe(p) /\ UNCHANGED <<wrap_vars, parse_vars, gp_vars, gc_vars>>
    \/ \E p \in Procs :
          FetchSaveTranscript(p) /\ UNCHANGED <<wrap_vars, parse_vars, gp_vars, gc_vars>>
    \/ \E p \in Procs :
          FetchSummarize(p) /\ UNCHANGED <<wrap_vars, parse_vars, gp_vars, gc_vars>>
    \/ \E p \in Procs :
          FetchSaveSummary(p) /\ UNCHANGED <<wrap_vars, parse_vars, gp_vars, gc_vars>>
    \/ \E p \in Procs : FetchInsert(p) /\ UNCHANGED <<wrap_vars, parse_vars, gp_vars, gc_vars>>
    \/ \E p \in Procs : FetchDone(p) /\ UNCHANGED <<wrap_vars, parse_vars, gp_vars, gc_vars>>
    \/ \E p \in Procs :
          InsertLocked(p) /\ UNCHANGED <<wrap_vars, parse_vars, gp_vars, gc_vars>>

InitShared == SharedInit /\ WrapIdle /\ ParseIdle /\ GeminiIdle /\ GenerateIdle

SpecShared == InitShared /\ [][SharedNext]_vars

-----------------------------------------------------------------------------
(* The claims *)

\* C1: every line returned by _wrap_text measures at most max_width, except a
\* line that is a single character whose own width exceeds max_width.
C1_WrappedLinesFit ==
    wrap_pc = "done" =>
        \A n \in 1..Len(wrap_lines) :
            \/ textlength(wrap_lines[n], wrap_size) <= wrap_width
            \/ /\ Len(wrap_lines[n]) = 1
               /\ FontWidth(wrap_lines[n][1], wrap_size) > wrap_width

\* A wrapped text with a full line of several characters and an unbreakable
\* character wider than the budget.
C1_Witness ==
    /\ wrap_pc = "done"
    /\ \E n \in 1..Len(wrap_lines) :
            Len(wrap_lines[n]) = 1 /\ textlength(wrap_lines[n], wrap_size) > wrap_width
    /\ \E n \in 1..Len(wrap_lines) :
            Len(wrap_lines[n]) >= 2 /\ textlength(wrap_lines[n], wrap_size) <= wrap_width
    /\ Len(wrap_lines) >= 2

Recognized == {SECTION_ORDER[n] : n \in 1..Len(SECTION_ORDER)}

Rank(name) == CHOOSE n \in 1..Len(SECTION_ORDER) : SECTION_ORDER[n] = name

SectionCards == {n \in 1..Len(files) : files[n].kind = "section"}

\* C2: whatever the order of the sections in the document, the section cards
\* are rendered in the order of SECTION_ORDER, and no card is rendered for a
\* name that is not in SECTION_ORDER.
C2_CardsFollowSectionOrder ==
    \A n \in SectionCards :
        /\ files[n].label \in Recognized
        /\ \A m \in SectionCards : m < n => Rank(files[m].label) < Rank(files[n].label)

\* A finished run on a document that has 風險提示 first, then an unrecognized
\* section, then 核心觀點, all three with content.
C2_Witness ==
    /\ pc = "done"
    /\ Len(sections) = 3
    /\ sections[1].name = SECTION_ORDER[5]
    /\ sections[2].name = UNKNOWN_SECTION
    /\ sections[3].name = SECTION_ORDER[1]
    /\ Cardinality(SectionCards) = 2

\* C3: the list returned by _gemini_points has between 0 and 5 entries, from
\* the remote response, from the local strategy without a credential, and from
\* the local strategy after a failed remote call.
C3_AtMostFivePoints ==
    gp_pc = "return" => Len(gp_points) \in 0..5

\* A call with a credential whose remote response has more than five
\* non-blank lines.
C3_Witness ==
    /\ gp_pc = "return"
    /\ api_key # ""
    /\ gp_outcome = "text"
    /\ Len(CleanLines(gp_raw)) > 5
    /\ Len(gp_points) = 5

\* floor((canvas_height - top_offset - bottom_reserved) / line_height)
LineBudget == (H - CONTENT_TOP - FOOTER_RESERVED) \div (FS_CONTENT + 20)

\* The card saved last, once a section card has been saved: it was drawn from
\* points.
LastCard == files[Len(files)]

WrappedContent == Flatten([n \in 1..Len(points) |-> PointLines(points[n])])

\* C4: a section card never shows more content lines than the line budget, and
\* when the wrapped content has more lines than the budget the card shows
\* exactly the budget, the last of them the ellipsis.
C4_LinesWithinBudget ==
    (pc \in {"loop", "done"} /\ Len(files) > 1) =>
        /\ Len(LastCard.lines) <= LineBudget
        /\ Len(WrappedContent) > LineBudget =>
              /\ Len(LastCard.lines) = LineBudget
              /\ LastCard.lines[LineBudget].text = <<ELLIPSIS>>

\* C5: the footer of a section card is the title when the title has at most
\* 32 characters, and otherwise its first 31 characters and one ellipsis.
C5_FooterCaption ==
    \A n \in SectionCards :
        LET footer == files[n].footer
        IN  /\ Len(footer) <= 32
            /\ Len(title) <= 32 => footer = title
            /\ Len(title) > 32 =>
                  /\ Len(footer) = 32
                  /\ \A k \in 1..31 : footer[k] = title[k]
                  /\ footer[32] = ELLIPSIS

\* A section card under a title of more than 32 characters.
C5_Witness ==
    /\ pc = "done"
    /\ Len(title) > 32
    /\ \E n \in SectionCards : Len(files[n].footer) = 32 /\ files[n].footer # title

\* The recognized sections of the document that have content, from what the
\* document was written from.
Present ==
    {plan.blocks[n].name : n \in {n \in 1..Len(plan.blocks) :
        /\ plan.blocks[n].name \in Recognized
        /\ Strip(plan.blocks[n].content) # <<>>}}

\* C6: for a document with k recognized sections that have content,
\* generate_cards returns card_00 .. card_k, and the card at position j is the
\* j-th present section in priority order, rendered with index j of k; a
\* heading whose content trims to nothing gives no card and is not counted.
C6_OneCardPerPresentSection ==
    pc = "done" =>
        LET k == Cardinality(Present)
        IN  /\ cards = [j \in 1..(k + 1) |-> CardPath(j - 1)]
            /\ Len(files) = k + 1
            /\ \A j \in 1..(k + 1) : files[j].path = cards[j]
            /\ \A j \in 1..k :
                  /\ files[j + 1].progress = [index |-> j, total |-> k]
                  /\ files[j + 1].label \in Present
                  /\ Cardinality({name \in Present :
                                    Rank(name) <= Rank(files[j + 1].label)}) = j

\* A finished run on a document with a recognized heading whose content is
\* blank, a recognized section with content and an unrecognized one.
C6_Witness ==
    /\ pc = "done"
    /\ Len(cards) = 2
    /\ \E n \in 1..Len(plan.blocks) :
          plan.blocks[n].name \in Recognized /\ plan.blocks[n].content = BLANK_CONTENT
    /\ \E n \in 1..Len(plan.blocks) : plan.blocks[n].name = UNKNOWN_SECTION
    /\ files[2].progress = [index |-> 1, total |-> 1]

\* C7: parsing is a round trip: the serialization of a parsed Summary parses
\* to the same title and the same sections with the same contents.
C7_ParseRoundTrip ==
    parse_pc = "reparsed" => reparse_out = parse_out

\* C8: for every input text parse_summary returns (the title is the first
\* top-level heading's trimmed text, or the default title without one),
\* no exception of a bullet extraction reaches generate_cards, and the first
\* element of its list is the title card.
C8_AlwaysATitleCard ==
    /\ pc # "start" => title = (IF plan.title = <<>> THEN DEFAULT_TITLE ELSE plan.title)
    /\ pc \in {"loop", "points", "done"} =>
          /\ cards # <<>> /\ cards[1] = CardPath(0)
          /\ files[1].kind = "title" /\ files[1].path = CardPath(0)
    /\ gp_pc # "raised"

\* A finished run on a text that is an unclosed frontmatter fence and has no
\* heading: the default title and the title card alone.
C8_Witness ==
    /\ pc = "done"
    /\ md_text = FENCE \o <<NL, "a">>
    /\ title = DEFAULT_TITLE
    /\ cards = <<CardPath(0)>>

\* The remote call failed: it raised, or its response has no non-blank line.
RemoteFailed ==
    \/ gp_outcome \in RemoteErrors
    \/ /\ gp_outcome = "text"
       /\ \A n \in 1..Len(Split(gp_raw)) : Strip(Split(gp_raw)[n]) = <<>>

\* C9: with a credential, when the remote call fails in any way,
\* _gemini_points raises nothing and returns what _fallback_points returns
\* for the content.
C9_FailureFallsBack ==
    (api_key # "" /\ RemoteFailed) =>
        /\ gp_pc = "return"
        /\ gp_points = _fallback_points(gp_content)

\* A call whose response had no "candidates" and that returned the local
\* strategy's points.
C9_Witness ==
    /\ api_key # ""
    /\ gp_outcome = "KeyError"
    /\ gp_pc = "return"
    /\ Len(gp_points) >= 2

\* C10: a call of _gemini_points sends at most one request, none without a
\* credential, and whether it sends one depends on the credential alone.
C10_OneRequestByCredential ==
    /\ Len(gp_requests) <= 1
    /\ api_key = "" => gp_requests = <<>>
    /\ gp_pc \in {"request", "return", "raised"} => (Len(gp_requests) = 1 <=> api_key # "")

\* A call with a credential and an empty content that has returned after its
\* one request timed out.
C10_Witness ==
    /\ gp_pc = "return"
    /\ api_key # ""
    /\ gp_content = <<>>
    /\ gp_outcome = "TimeoutError"
    /\ Len(gp_requests) = 1

\* Whether text holds a complete [label](url) occurrence.
HasLink(text) == \E p \in 1..Len(text) : LinkAt(text, p)

\* C11: after parse_summary neither the returned title nor any returned
\* section content holds a complete [label](url) occurrence.
C11_NoLinkMarkupLeft ==
    parse_pc \in {"parsed", "reparsed"} =>
        /\ ~HasLink(parse_out.title)
        /\ \A n \in 1..Len(parse_out.sections) : ~HasLink(parse_out.sections[n].content)

\* The subprocesses a process has run, in order.
RanCommands(p) == [n \in 1..Len(proc[p].ran) |-> proc[p].ran[n].cmd]

\* C12: runner.py deploy runs the site build first and, when the build
\* succeeds and deploy.sh is there, deploy.sh after it; it ends without having
\* run deploy.sh only when the build failed or deploy.sh is missing.
C12_DeployBuildsThenPushes ==
    \A p \in Procs :
        (proc[p].argv = <<"deploy">> /\ proc[p].pc = "exited") =>
            /\ proc[p].ran # <<>>
            /\ proc[p].ran[1].cmd = "build_site.py"
            /\ (proc[p].ran[1].returncode = 0 /\ disk.deploy_script) =>
                  RanCommands(p) = <<"build_site.py", "deploy.sh">>
            /\ "deploy.sh" \in {RanCommands(p)[n] : n \in 1..Len(proc[p].ran)} =>
                  proc[p].ran[1].returncode = 0

\* C13: runner.py cards <video_id>, with a valid channels.json and the summary
\* of the video on disk, ends without an error, with the cards of the video in
\* data/cards/<video_id> and listed, the title card first.
C13_CardsCommandMakesCards ==
    \A p \in Procs :
        (/\ proc[p].pc = "exited"
         /\ Len(proc[p].argv) = 2
         /\ proc[p].argv[1] = "cards"
         /\ ~_load_channels(disk.channels_file).exits
         /\ disk.summaries[proc[p].argv[2]].exists) =>
            /\ proc[p].error = "none"
            /\ proc[p].exit = 0
            /\ proc[p].argv[2] \in disk.card_pngs
            /\ proc[p].listed # <<>>
            /\ proc[p].listed[1] = CardPath(0)

\* get_latest_videos has returned to cmd_run's loop over the videos.
LatestReturned(p) ==
    proc[p].pc \in {"video", "transcribe", "save_transcript", "summarize",
                    "save_summary", "mark"}

\* C14: get_latest_videos tries the RSS feed first and returns its videos when
\* there is at least one; it tries the page scrape only after the RSS attempt
\* gave no video or raised; it never raises, and returns the empty list when
\* the page scrape fails too.
C14_RssFirstThenPage ==
    \A p \in Procs :
        /\ proc[p].rss # "untried" => proc[p].error = "none"
        /\ proc[p].page # "untried" => proc[p].rss \in {"empty"} \cup RssErrors
        /\ proc[p].pc = "page" =>
              proc[p].rss \in {"empty"} \cup RssErrors /\ proc[p].page = "untried"
        /\ LatestReturned(p) =>
              /\ proc[p].rss = "videos" =>
                    proc[p].page = "untried" /\ proc[p].videos # <<>>
              /\ proc[p].rss # "videos" => proc[p].page # "untried"
              /\ proc[p].page \in PageErrors => proc[p].videos = <<>>

\* A call in which the feed could not be decoded and the page's data could
\* not be parsed, returned with no video.
C14_Witness ==
    \E p \in Procs :
        /\ LatestReturned(p)
        /\ proc[p].rss = "UnicodeDecodeError"
        /\ proc[p].page = "JSONDecodeError"
        /\ proc[p].videos = <<>>
        /\ proc[p].error = "none"

\* The video ids that have a row in episodes.
Recorded == {db.episodes[n].video_id : n \in 1..Len(db.episodes)}

\* Process p is between the transcription of a video and its recording.
Processing(p) ==
    proc[p].pc \in {"transcribe", "save_transcript", "summarize", "save_summary", "mark"}

\* Both files of a video are on disk.
FilesWritten(video_id) ==
    disk.transcripts[video_id] # None /\ disk.summaries[video_id].exists

\* C20: in cmd_run a row is added to episodes only for a video whose
\* transcript was obtained and whose transcript file and summary file have
\* been written, and a video that has a row is skipped: it is neither
\* transcribed nor summarized again.
C20_RecordedAfterBothFiles ==
    /\ [](\A id \in Recorded : FilesWritten(id))
    /\ [](\A p \in Procs : Processing(p) => Video(p).video_id \notin Recorded)
    /\ [][db'.episodes # db.episodes =>
            \E p \in Procs :
                /\ proc[p].pc = "mark"
                /\ proc[p].transcript # None
                /\ disk.transcripts[Video(p).video_id] = proc[p].transcript
                /\ disk.summaries[Video(p).video_id].body = proc[p].summary_body
                /\ FilesWritten(Video(p).video_id)
                /\ Len(db'.episodes) = Len(db.episodes) + 1
                /\ db'.episodes[Len(db'.episodes)].video_id = Video(p).video_id]_vars

\* A finished run over the videos v1, already recorded, and v2: v1 was
\* skipped and v2, once transcribed and summarized, was recorded.
C20_Witness ==
    \E p \in Procs :
        /\ proc[p].pc = "exited"
        /\ proc[p].exit = 0
        /\ proc[p].videos = <<VideoOf("v1"), VideoOf("v2")>>
        /\ proc[p].total_new = 1
        /\ Len(db.episodes) = 2
        /\ db.episodes[1].video_id = "v1"
        /\ db.episodes[2].video_id = "v2"
        /\ FilesWritten("v2")

\* Whether a text begins with digits followed by one of . 、 。 ) ）.
HasNumberPrefix(s) ==
    \E d \in 2..Len(s) : s[d] \in NumberClosers /\ \A n \in 1..(d - 1) : s[n] \in Digits

\* C15: no point returned from a remote response is empty, begins with a
\* numeric enumeration prefix or begins with one of the bullet glyphs - • ·.
C15_RemotePointsStripped ==
    (gp_pc = "return" /\ gp_outcome = "text" /\ CleanLines(gp_raw) # <<>>) =>
        \A n \in 1..Len(gp_points) :
            /\ gp_points[n] # <<>>
            /\ ~HasNumberPrefix(gp_points[n])
            /\ Head(gp_points[n]) \notin PointBulletGlyphs

\* The text between the first and the last character of s that is no
\* whitespace.
Trimmed(s) ==
    LET solid == {n \in 1..Len(s) : s[n] \notin Whitespace}
    IN  IF solid = {} THEN <<>> ELSE SubSeq(s, Least(solid), Greatest(solid))

\* The characters of s that are no asterisk, in order.
Unstarred(s) ==
    LET kept == {n \in 1..Len(s) : s[n] # "*"}
    IN  [k \in 1..Cardinality(kept) |->
            s[CHOOSE n \in kept : Cardinality({m \in kept : m <= n}) = k]]

\* A content line cleaned: without its asterisks, trimmed, and without one
\* leading bullet glyph and the blanks around what follows it.
CleanedLine(raw) ==
    LET t == Trimmed(Unstarred(raw))
    IN  IF t # <<>> /\ t[1] \in {"-", BULLET, MIDDOT}
        THEN Trimmed(SubSeq(t, 2, Len(t)))
        ELSE t

\* The non-empty cleaned lines of a content, in source order.
CleanedLines(content) ==
    LET ls == Split(content)
        full == {n \in 1..Len(ls) : CleanedLine(ls[n]) # <<>>}
    IN  [k \in 1..Cardinality(full) |->
            CleanedLine(ls[CHOOSE n \in full : Cardinality({m \in full : m <= n}) = k])]

\* C16: the local strategy returns the first up to 5 non-empty cleaned lines
\* of the content in source order, each unchanged when it has at most 25
\* characters and otherwise cut to its first 25 characters and one ellipsis.
C16_FallbackPoints ==
    (gp_pc = "return" /\ (api_key = "" \/ gp_outcome \in RemoteErrors)) =>
        LET cleaned == CleanedLines(gp_content)
        IN  /\ Len(gp_points) = (IF Len(cleaned) < 5 THEN Len(cleaned) ELSE 5)
            /\ \A n \in 1..Len(gp_points) :
                  /\ Len(cleaned[n]) <= 25 => gp_points[n] = cleaned[n]
                  /\ Len(cleaned[n]) > 25 =>
                        gp_points[n] = SubSeq(cleaned[n], 1, 25) \o <<ELLIPSIS>>

\* A call without a credential on a content of six lines of 26 characters:
\* five points, each of 25 characters and the ellipsis.
C16_Witness ==
    /\ gp_pc = "return"
    /\ api_key = ""
    /\ Len(Split(gp_content)) = 6
    /\ Len(gp_points) = 5
    /\ \A n \in 1..5 : Len(gp_points[n]) = 26 /\ gp_points[n][26] = ELLIPSIS

\* C17: within one generate_cards run the title card is persisted before any
\* bullet extraction starts; while the extraction for section i runs, exactly
\* the title card and the cards of the sections before i are persisted; a
\* section's card is rendered only once its extraction has returned, from the
\* points it returned; and the returned list holds the paths of the artifacts
\* in the order they were persisted.
C17_StepsInOrder ==
    /\ [](gp_pc # "idle" =>
            /\ pc = "points"
            /\ Len(files) = i
            /\ files[1].kind = "title"
            /\ \A k \in 1..(i - 1) :
                  files[k + 1].kind = "section" /\ files[k + 1].label = ordered[k].name)
    /\ [](cards = [n \in 1..Len(files) |-> files[n].path])
    /\ [][(files' # files /\ files # <<>>) =>
            /\ gp_pc = "return"
            /\ files' = Append(files, files'[Len(files')])
            /\ files'[Len(files')].label = gp_title
            /\ files'[Len(files')].lines = DrawPoints(gp_points, CONTENT_TOP, <<>>)
            /\ gp_pc' = "idle"]_vars
    /\ [][(files' # files /\ files = <<>>) =>
            /\ gp_pc = "idle"
            /\ gp_requests = <<>>
            /\ files' = <<files'[1]>>
            /\ files'[1].kind = "title"]_vars

\* A finished run with a credential that persisted the title card and two
\* section cards, each after the remote extraction of its section.
C17_Witness ==
    /\ pc = "done"
    /\ api_key # ""
    /\ Len(files) = 3
    /\ files[1].kind = "title"
    /\ files[2].label = SECTION_ORDER[1]
    /\ files[3].label = SECTION_ORDER[5]
    /\ files[3].lines # <<>>

\* The paragraphs of the wrapped text: its lines, trimmed and with the bullet
\* glyph normalized, that are not blank.
NotBlank(paragraph) == paragraph # <<>>
WrapParagraphs ==
    LET raws == Split(wrap_text)
    IN  SelectSeq([n \in 1..Len(raws) |-> NormalizeBullet(raws[n])], NotBlank)

\* The number of characters in the first n texts of a sequence.
RECURSIVE CharsUpTo(_, _)
CharsUpTo(texts, n) == IF n = 0 THEN 0 ELSE CharsUpTo(texts, n - 1) + Len(texts[n])

\* Where the texts of a sequence end, counted in characters from the start.
Ends(texts) == {CharsUpTo(texts, n) : n \in 1..Len(texts)}

\* Where the paragraphs end and where the output lines end.
ParagraphEnds == Ends(WrapParagraphs)
LineEnds == Ends(wrap_lines)

\* C18: wrapping is paragraph-bounded and greedy: every paragraph ends at the
\* end of an output line, and an output line that is not the last of its
\* paragraph cannot take the first character of the next line without
\* measuring more than max_width.
C18_GreedyWithinParagraphs ==
    wrap_pc = "done" =>
        LET ends == ParagraphEnds
        IN  /\ ends \subseteq LineEnds
            /\ \A n \in 1..(Len(wrap_lines) - 1) :
                  CharsUpTo(wrap_lines, n) \notin ends =>
                      textlength(Append(wrap_lines[n], wrap_lines[n + 1][1]), wrap_size)
                          > wrap_width

\* A text of two paragraphs whose first wraps into a line of two characters
\* and a second line.
C18_Witness ==
    /\ wrap_pc = "done"
    /\ Len(WrapParagraphs) = 2
    /\ Len(wrap_lines) = 3
    /\ Len(wrap_lines[1]) = 2
    /\ CharsUpTo(wrap_lines, 1) \notin ParagraphEnds
    /\ CharsUpTo(wrap_lines, 2) \in ParagraphEnds

\* C19: _wrap_text loses and reorders no character: the output lines, put
\* end to end, are the paragraphs put end to end, with every paragraph made of
\* whole lines; no output line is empty; and there are at most as many lines
\* as characters, whatever max_width is.
C19_NoCharacterLost ==
    wrap_pc = "done" =>
        LET paragraphs == WrapParagraphs
        IN  /\ Flatten(wrap_lines) = Flatten(paragraphs)
            /\ Ends(paragraphs) \subseteq LineEnds
            /\ \A n \in 1..Len(wrap_lines) : wrap_lines[n] # <<>>
            /\ Len(wrap_lines) <= CharsUpTo(paragraphs, Len(paragraphs))

\* A bullet line wrapped at a max_width smaller than every character: one
\* line per character of the normalized text.
C19_Witness ==
    /\ wrap_pc = "done"
    /\ wrap_width = 0
    /\ wrap_text # <<>> /\ Head(wrap_text) = "-"
    /\ Len(wrap_lines) >= 3
    /\ wrap_lines[1] = <<BULLET>>
    /\ Len(wrap_lines) = Len(Flatten(WrapParagraphs))

\* C21: under any interleaving of cmd_run and fetch_channel executions on the
\* one database, the episodes table holds at most one row per video_id, and a
\* row once inserted stays as it was inserted: no later insert for the same
\* video_id replaces or modifies it.
C21_OneRowPerVideoKept ==
    /\ [](\A m, n \in 1..Len(db.episodes) :
             db.episodes[m].video_id = db.episodes[n].video_id => m = n)
    /\ [][\A n \in 1..Len(db.episodes) :
             n <= Len(db'.episodes) /\ db'.episodes[n] = db.episodes[n]]_vars

\* cmd_run and fetch_channel, side by side, have each taken the same video as
\* new and run their insert for it, and the table has the one row.
C21_Witness ==
    /\ proc["p1"].argv = <<"run">> /\ proc["p2"].argv = <<"fetch", "UC_a">>
    /\ proc["p1"].pc = "exited" /\ proc["p2"].pc = "exited"
    /\ proc["p1"].error = "none" /\ proc["p2"].error = "none"
    /\ proc["p1"].videos = proc["p2"].videos
    /\ proc["p1"].new_count = 1 /\ proc["p2"].new_count = 1
    /\ Len(db.episodes) = 1

=============================================================================
